---- MODULE Spec2Model ----
(***************************************************************************)
(* Model of server.js: an express application that keeps an in-memory      *)
(* list of users (users_list) and serves POST /users, GET /users/:id,      *)
(* PUT /users/:id and DELETE /users/:id.  Each handler runs to completion, *)
(* so one request is one step.                                             *)
(*                                                                         *)
(* Strings are sequences of one-character strings, so that trim(),         *)
(* isInt(), isEmail() and the coercion done by `u.id == req.params.id`     *)
(* are computed from the characters.                                       *)
(***************************************************************************)
EXTENDS Integers, Sequences, FiniteSets, TLC

\* Largest number of records the model lets the list grow to.
MaxUsers == 3

----------------------------------------------------------------------------
\* Characters and strings

Digits == <<"0", "1", "2", "3", "4", "5", "6", "7", "8", "9">>

IsDigit(c) == \E i \in 1..10 : Digits[i] = c

DigitVal(c) == (CHOOSE i \in 1..10 : Digits[i] = c) - 1

Letters == {"a", "b", "e", "n", "o", "x", "A", "B"}

IsSpace(c) == c = " "

AllDigits(s) == \A i \in 1..Len(s) : IsDigit(s[i])

RECURSIVE DecimalValue(_)
DecimalValue(s) ==
  IF s = <<>> THEN 0
  ELSE 10 * DecimalValue(SubSeq(s, 1, Len(s) - 1)) + DigitVal(s[Len(s)])

\* Index of the first / last occurrence of character c in s, 0 when absent.
IndexOf(s, c) ==
  IF \E i \in 1..Len(s) : s[i] = c
  THEN CHOOSE i \in 1..Len(s) : s[i] = c /\ \A j \in 1..(i - 1) : s[j] # c
  ELSE 0

LastIndexOf(s, c) ==
  IF \E i \in 1..Len(s) : s[i] = c
  THEN CHOOSE i \in 1..Len(s) : s[i] = c /\ \A j \in (i + 1)..Len(s) : s[j] # c
  ELSE 0

\* s.split(c)
RECURSIVE Split(_, _)
Split(s, c) ==
  LET i == IndexOf(s, c)
  IN IF i = 0 THEN <<s>>
     ELSE <<SubSeq(s, 1, i - 1)>> \o Split(SubSeq(s, i + 1, Len(s)), c)

----------------------------------------------------------------------------
\* express-validator sanitizer and validators used by the route chains

RECURSIVE ltrim(_)
ltrim(s) == IF s # <<>> /\ IsSpace(Head(s)) THEN ltrim(Tail(s)) ELSE s

RECURSIVE rtrim(_)
rtrim(s) ==
  IF s # <<>> /\ IsSpace(s[Len(s)]) THEN rtrim(SubSeq(s, 1, Len(s) - 1)) ELSE s

\* .trim(): strips whitespace from both ends
trim(s) == rtrim(ltrim(s))

\* .notEmpty()
notEmpty(s) == Len(s) # 0

\* .isInt() with default options: optional sign, then one or more digits
isInt(s) ==
  LET body == IF s # <<>> /\ Head(s) \in {"+", "-"} THEN Tail(s) ELSE s
  IN body # <<>> /\ AllDigits(body)

\* local part of an address: dot-separated non-empty runs of atext characters
IsUserPart(p) ==
  /\ p # <<>>
  /\ \A i \in 1..Len(p) : p[i] \in Letters \/ IsDigit(p[i]) \/ p[i] \in {"-", "+"}

\* one label of a domain name
IsDomainLabel(p) ==
  /\ p # <<>>
  /\ \A i \in 1..Len(p) : p[i] \in Letters \/ IsDigit(p[i]) \/ p[i] = "-"
  /\ p[1] # "-"
  /\ p[Len(p)] # "-"

\* isFQDN with require_tld: at least two labels, the last of two or more letters
isFQDN(d) ==
  LET parts == Split(d, ".")
      tld   == parts[Len(parts)]
  IN /\ Len(parts) >= 2
     /\ Len(tld) >= 2
     /\ \A i \in 1..Len(tld) : tld[i] \in Letters
     /\ \A i \in 1..Len(parts) : IsDomainLabel(parts[i])

\* .isEmail(): the text after the last "@" is a domain name, the text before
\* it a dot-atom
isEmail(s) ==
  LET at     == LastIndexOf(s, "@")
      user   == SubSeq(s, 1, at - 1)
      domain == SubSeq(s, at + 1, Len(s))
      uparts == Split(user, ".")
  IN /\ at # 0
     /\ isFQDN(domain)
     /\ \A i \in 1..Len(uparts) : IsUserPart(uparts[i])

----------------------------------------------------------------------------
\* `u.id == req.params.id`: a number compared with a string.  The string is
\* converted to a number (optional sign, digits, optional fraction; anything
\* else is NaN) and the numbers are compared.

StringToNumber(s) ==
  LET neg    == s # <<>> /\ Head(s) = "-"
      signed == s # <<>> /\ Head(s) \in {"+", "-"}
      rest   == IF signed THEN Tail(s) ELSE s
      dot    == IndexOf(rest, ".")
      ipart  == IF dot = 0 THEN rest ELSE SubSeq(rest, 1, dot - 1)
      fpart  == IF dot = 0 THEN <<>> ELSE SubSeq(rest, dot + 1, Len(rest))
      wellFormed ==
        \/ s = <<>>
        \/ /\ AllDigits(ipart)
           /\ AllDigits(fpart)
           /\ Len(ipart) + Len(fpart) > 0
      mag    == DecimalValue(ipart)
  IN IF ~wellFormed
     THEN [nan |-> TRUE, integral |-> FALSE, val |-> 0]
     ELSE [nan      |-> FALSE,
           integral |-> \A i \in 1..Len(fpart) : fpart[i] = "0",
           val      |-> IF neg THEN 0 - mag ELSE mag]

LooseEq(n, s) ==
  LET x == StringToNumber(s)
  IN ~x.nan /\ x.integral /\ x.val = n

----------------------------------------------------------------------------
\* Array operations on users_list (indices are 0-based as in the code)

\* users_list.findIndex(u => u.id == id): first matching index, -1 if none
findIndex(list, id) ==
  IF \E i \in 1..Len(list) : LooseEq(list[i].id, id)
  THEN (CHOOSE i \in 1..Len(list) :
          /\ LooseEq(list[i].id, id)
          /\ \A j \in 1..(i - 1) : ~LooseEq(list[j].id, id)) - 1
  ELSE -1

Undefined == [undefined |-> TRUE]

\* users_list.find(u => u.id == id): first matching element, or undefined
find(list, id) ==
  LET i == findIndex(list, id)
  IN IF i = -1 THEN Undefined ELSE list[i + 1]

\* splice called without a delete count: drops everything from index on
spliceToEnd(list, index) ==
  LET len   == Len(list)
      start == IF index < 0
               THEN (IF len + index < 0 THEN 0 ELSE len + index)
               ELSE (IF index > len THEN len ELSE index)
  IN SubSeq(list, 1, start)

\* users_list.splice(index, 1); a negative index counts from the end
splice(list, index) ==
  LET len   == Len(list)
      start == IF index < 0
               THEN (IF len + index < 0 THEN 0 ELSE len + index)
               ELSE (IF index > len THEN len ELSE index)
  IN SubSeq(list, 1, start) \o SubSeq(list, start + 2, len)

\* insertion at the front instead of the end
unshift(list, user) == <<user>> \o list

\* users_list.push(user)
push(list, user) == Append(list, user)

----------------------------------------------------------------------------
\* Validation chains.  A chain yields the errors of validationResult(req)
\* in declaration order; sanitizers write their result back into the request.

ValidationError(location, param, msg) ==
  [location |-> location, param |-> param, msg |-> msg]

\* body('name').trim() applied to req.body
Sanitized(body) == [name |-> trim(body.name), email |-> body.email]

NameErrors(body, msg) ==
  IF notEmpty(trim(body.name)) THEN <<>>
  ELSE <<ValidationError("body", "name", msg)>>

EmailErrors(body) ==
  IF isEmail(body.email) THEN <<>>
  ELSE <<ValidationError("body", "email", "Valid email is required")>>

IdErrors(id) ==
  IF isInt(id) THEN <<>>
  ELSE <<ValidationError("params", "id", "ID should be an integer")>>

PostValidators(body) ==
  NameErrors(body, "Name is required") \o EmailErrors(body)

\* the chain without the check of the path parameter
PutValidatorsNoParam(id, body) ==
  NameErrors(body, "Name is mandatory") \o EmailErrors(body)

PutValidators(id, body) ==
  IdErrors(id) \o NameErrors(body, "Name is mandatory") \o EmailErrors(body)

----------------------------------------------------------------------------
\* Responses

BadRequest(errors) == [status |-> 400, body |-> [errors |-> errors]]

NotFound == [status |-> 404, body |-> [message |-> "User is not found"]]

Deleted == [status |-> 200, body |-> [message |-> "User is deleted"]]

Json(status, user) == [status |-> status, body |-> user]

----------------------------------------------------------------------------
\* Handlers: the list and the response a request produces from a list

\* id given without the + 1
NewUserIdNoIncrement(list) == Len(list)

\* users_list.length + 1
NewUserId(list) == Len(list) + 1

PostUsers(list, body) ==
  LET errors == PostValidators(body)
      b      == Sanitized(body)
      newUser == [id |-> NewUserId(list), name |-> b.name, email |-> b.email]
  IN IF errors # <<>>
     THEN [list |-> list, res |-> BadRequest(errors)]
     ELSE [list |-> push(list, newUser), res |-> Json(201, newUser)]

GetUser(list, id) ==
  LET user == find(list, id)
  IN IF user = Undefined
     THEN [list |-> list, res |-> NotFound]
     ELSE [list |-> list, res |-> Json(200, user)]

\* assignment of the name only
AssignName(user, body) == [user EXCEPT !.name = body.name]

\* user.name = req.body.name; user.email = req.body.email
Assign(user, body) == [user EXCEPT !.name = body.name, !.email = body.email]

\* lookup done before the validation result is inspected
PutUserLookupFirst(list, id, body) ==
  LET errors == PutValidators(id, body)
      b      == Sanitized(body)
      user   == find(list, id)
      at     == findIndex(list, id) + 1
      updated == Assign(user, b)
  IN IF user = Undefined
     THEN [list |-> list, res |-> NotFound]
     ELSE IF errors # <<>>
     THEN [list |-> list, res |-> BadRequest(errors)]
     ELSE [list |-> [list EXCEPT ![at] = updated], res |-> Json(200, updated)]

\* `user` is a reference to the first matching element of users_list, so the
\* assignments change the list at that position
PutUser(list, id, body) ==
  LET errors == PutValidators(id, body)
      b      == Sanitized(body)
      user   == find(list, id)
      at     == findIndex(list, id) + 1
      updated == Assign(user, b)
  IN IF errors # <<>>
     THEN [list |-> list, res |-> BadRequest(errors)]
     ELSE IF user = Undefined
     THEN [list |-> list, res |-> NotFound]
     ELSE [list |-> [list EXCEPT ![at] = updated], res |-> Json(200, updated)]

\* the handler without the test of userIndex
DeleteUserUnchecked(list, id) ==
  LET userIndex == findIndex(list, id)
  IN [list |-> splice(list, userIndex), res |-> Deleted]

DeleteUser(list, id) ==
  LET userIndex == findIndex(list, id)
  IN IF userIndex = -1
     THEN [list |-> list, res |-> NotFound]
     ELSE [list |-> splice(list, userIndex), res |-> Deleted]

----------------------------------------------------------------------------
\* Requests the model submits

Str1(c) == <<c>>

NameA      == <<"A">>
NamePadded == <<" ", "B", " ">>
NameBlank  == <<" ">>
EmailA     == <<"a", "@", "x", ".", "b", "e">>
EmailB     == <<"b", "@", "x", ".", "b", "e">>
EmailNoAt  == <<"n", "-", "e">>
EmailNoTld == <<"a", "@", "x">>

Bodies ==
  { [name |-> NameA,      email |-> EmailA],
    [name |-> NamePadded, email |-> EmailB],
    [name |-> NameBlank,  email |-> EmailA],
    [name |-> NameA,      email |-> EmailNoAt],
    [name |-> <<>>,       email |-> EmailNoTld] }

\* path parameters: "1" .. one past the largest id, "01", "+2", "1.0", "a"
PathIds ==
  { Str1(Digits[n + 1]) : n \in 1..(MaxUsers + 1) }
    \cup { <<"0", "1">>, <<"+", "2">>, <<"1", ".", "0">>, <<"a">> }

NoBody == [name |-> <<>>, email |-> <<>>]

----------------------------------------------------------------------------
\* State

VARIABLES
  users_list,  \* the in-memory list of user records
  req,         \* the request handled last: method, path parameter, body
  res,         \* the response to it
  pre,         \* users_list as it was when that request arrived
  after,       \* "POST" or "PUT" when that request is a read of the id of the
               \* record the request just before it created or updated,
               \* "NONE" otherwise
  deletedIds   \* ids deleted with status 200 since the last successful create

vars == <<users_list, req, res, pre, after, deletedIds>>

\* The request/response pair rq, rs created or updated a record
IsWrite(rq, rs) ==
  \/ rq.method = "POST" /\ rs.status = 201
  \/ rq.method = "PUT" /\ rs.status = 200

Init ==
  /\ users_list = <<>>
  /\ req = [method |-> "NONE", id |-> <<>>, body |-> NoBody]
  /\ res = [status |-> 0, body |-> Undefined]
  /\ pre = <<>>
  /\ after = "NONE"
  /\ deletedIds = {}

Handle(method, id, body, out) ==
  /\ users_list' = out.list
  /\ req' = [method |-> method, id |-> id, body |-> body]
  /\ res' = out.res
  /\ pre' = users_list
  /\ after' = IF /\ method = "GET"
                 /\ IsWrite(req, res)
                 /\ LooseEq(res.body.id, id)
              THEN req.method
              ELSE "NONE"

Create ==
  \E body \in Bodies :
    LET out == PostUsers(users_list, body)
    IN /\ Len(out.list) <= MaxUsers
       /\ Handle("POST", <<>>, body, out)
       /\ deletedIds' = IF out.res.status = 201 THEN {} ELSE deletedIds

Read ==
  \E id \in PathIds :
    /\ Handle("GET", id, NoBody, GetUser(users_list, id))
    /\ UNCHANGED deletedIds

Update ==
  \E id \in PathIds, body \in Bodies :
    /\ Handle("PUT", id, body, PutUser(users_list, id, body))
    /\ UNCHANGED deletedIds

Delete ==
  \E id \in PathIds :
    LET out  == DeleteUser(users_list, id)
        user == find(users_list, id)
    IN /\ Handle("DELETE", id, NoBody, out)
       /\ deletedIds' =
            IF out.res.status = 200 /\ user # Undefined
            THEN deletedIds \cup {user.id}
            ELSE deletedIds

Next == Create \/ Read \/ Update \/ Delete

Spec == Init /\ [][Next]_vars

----------------------------------------------------------------------------
\* Properties

\* C1: no two records stored in users_list have the same id.
C1_UniqueIds ==
  \A i, j \in 1..Len(users_list) :
    i # j => users_list[i].id # users_list[j].id

\* C2: a create whose name is non-empty after trimming and whose email is
\* valid is answered 201 with a record whose id is the size of the list
\* before the call plus 1, and the list afterwards is the list before with
\* that record appended at the end.
C2_CreateAppends ==
  (/\ req.method = "POST"
   /\ notEmpty(trim(req.body.name))
   /\ isEmail(req.body.email))
  => /\ res.status = 201
     /\ res.body = [id    |-> Len(pre) + 1,
                    name  |-> trim(req.body.name),
                    email |-> req.body.email]
     /\ Len(users_list) = Len(pre) + 1
     /\ users_list[Len(users_list)] = res.body
     /\ \A i \in 1..Len(pre) : users_list[i] = pre[i]

\* a padded name was created into a list that already held records
C2_Witness ==
  /\ req.method = "POST"
  /\ res.status = 201
  /\ req.body.name = NamePadded
  /\ Len(pre) >= 2

\* C3: a read of the id a create has just returned is answered 200 with the
\* record the create returned.
C3_ReadAfterCreate ==
  [][ (/\ req.method = "POST"
       /\ res.status = 201
       /\ req'.method = "GET"
       /\ LooseEq(res.body.id, req'.id))
      => res' = [status |-> 200, body |-> res.body] ]_vars

\* C4: once a delete of an id has been answered 200, and until the next
\* successful create, every read and every delete of that id is answered 404.
C4_DeletedStaysGone ==
  [][ (/\ req'.method \in {"GET", "DELETE"}
       /\ \E k \in deletedIds : LooseEq(k, req'.id))
      => res'.status = 404 ]_vars

\* C5 as stated: an update of an existing id with a valid body is answered
\* 200 with a record that has the requested id and the submitted name and
\* email, and a read of that id right after it returns that record.
C5_UpdateReturnsSubmitted ==
  [][ /\ (/\ req'.method = "PUT"
          /\ isInt(req'.id)
          /\ \E i \in 1..Len(users_list) : LooseEq(users_list[i].id, req'.id)
          /\ notEmpty(trim(req'.body.name))
          /\ isEmail(req'.body.email))
         => /\ res'.status = 200
            /\ LooseEq(res'.body.id, req'.id)
            /\ res'.body.name = req'.body.name
            /\ res'.body.email = req'.body.email
      /\ (/\ req.method = "PUT"
          /\ res.status = 200
          /\ req'.method = "GET"
          /\ LooseEq(res.body.id, req'.id))
         => res' = [status |-> 200, body |-> res.body] ]_vars

\* C5 amended: an update whose path id passes the integer check and names an
\* existing id, with a valid body, is answered 200 with a record that has the
\* requested id, the submitted name with the whitespace at both ends removed
\* and the submitted email; a read of that id right after it returns that
\* record.
C5_UpdateReturnsTrimmed ==
  [][ /\ (/\ req'.method = "PUT"
          /\ isInt(req'.id)
          /\ \E i \in 1..Len(users_list) : LooseEq(users_list[i].id, req'.id)
          /\ notEmpty(trim(req'.body.name))
          /\ isEmail(req'.body.email))
         => /\ res'.status = 200
            /\ LooseEq(res'.body.id, req'.id)
            /\ res'.body.name = trim(req'.body.name)
            /\ res'.body.email = req'.body.email
      /\ (/\ req.method = "PUT"
          /\ res.status = 200
          /\ req'.method = "GET"
          /\ LooseEq(res.body.id, req'.id))
         => res' = [status |-> 200, body |-> res.body] ]_vars

\* a read answered right after an update that stored a trimmed name and a
\* new email
C5_Witness ==
  /\ after = "PUT"
  /\ req.method = "GET"
  /\ res.status = 200
  /\ res.body.name = trim(NamePadded)
  /\ res.body.email = EmailB
  /\ \E i \in 1..Len(users_list) :
       users_list[i].name = NameA /\ users_list[i].email = EmailA

\* C6: a create or update that fails validation (name empty after trimming,
\* email not valid, or for update a path id that is not an integer) is
\* answered 400 with errors naming exactly the failing fields, and leaves
\* users_list as it was.
C6_ValidationFailure ==
  LET nameBad  == ~notEmpty(trim(req.body.name))
      emailBad == ~isEmail(req.body.email)
      idBad    == req.method = "PUT" /\ ~isInt(req.id)
      failing  == {f \in {"id", "name", "email"} :
                     \/ f = "id" /\ idBad
                     \/ f = "name" /\ nameBad
                     \/ f = "email" /\ emailBad}
  IN (req.method \in {"POST", "PUT"} /\ failing # {})
     => /\ res.status = 400
        /\ {res.body.errors[i].param : i \in 1..Len(res.body.errors)} = failing
        /\ users_list = pre

\* an update of a stored record refused only for its path id
C6_Witness ==
  /\ req.method = "PUT"
  /\ res.status = 400
  /\ ~isInt(req.id)
  /\ \E i \in 1..Len(pre) : LooseEq(pre[i].id, req.id)
  /\ notEmpty(trim(req.body.name))
  /\ isEmail(req.body.email)

\* C7: a read, a delete, or an update with valid input, of an id that no
\* stored record has is answered 404 with the message "User is not found",
\* and leaves users_list as it was.
C7_NotFound ==
  (/\ \/ req.method \in {"GET", "DELETE"}
      \/ /\ req.method = "PUT"
         /\ isInt(req.id)
         /\ notEmpty(trim(req.body.name))
         /\ isEmail(req.body.email)
   /\ \A i \in 1..Len(pre) : ~LooseEq(pre[i].id, req.id))
  => /\ res = [status |-> 404, body |-> [message |-> "User is not found"]]
     /\ users_list = pre

\* a delete of an absent id from a list that holds records
C7_Witness ==
  /\ req.method = "DELETE"
  /\ res.status = 404
  /\ Len(pre) >= 2
  /\ isInt(req.id)

\* C8: a successful delete removes exactly one record, one whose id is the
\* requested id, and keeps the other records and their order; a read of any
\* other id is answered after it as it was before it.
C8_DeleteRemovesOne ==
  (req.method = "DELETE" /\ res.status = 200)
  => /\ \E i \in 1..Len(pre) :
          /\ LooseEq(pre[i].id, req.id)
          /\ Len(users_list) = Len(pre) - 1
          /\ \A j \in 1..Len(users_list) :
               users_list[j] = IF j < i THEN pre[j] ELSE pre[j + 1]
     /\ \A p \in PathIds :
          (\A i \in 1..Len(pre) :
             LooseEq(pre[i].id, req.id) => ~LooseEq(pre[i].id, p))
          => GetUser(users_list, p).res = GetUser(pre, p).res

\* a delete that took a record from in front of two others
C8_Witness ==
  /\ req.method = "DELETE"
  /\ res.status = 200
  /\ Len(pre) = 3
  /\ LooseEq(pre[1].id, req.id)
  /\ users_list = <<pre[2], pre[3]>>
  /\ pre[2] # pre[3]

\* C9: in an update validation comes before lookup: invalid input is
\* answered 400 whether or not the id exists, and an update of an id that no
\* record has is answered 404 exactly when the path id is an integer and the
\* body is valid.
C9_ValidationBeforeLookup ==
  LET valid  == /\ isInt(req.id)
                /\ notEmpty(trim(req.body.name))
                /\ isEmail(req.body.email)
      exists == \E i \in 1..Len(pre) : LooseEq(pre[i].id, req.id)
  IN req.method = "PUT"
     => /\ ~valid => res.status = 400
        /\ ~exists => (res.status = 404 <=> valid)

\* an update with an invalid body of an integer id that no record has
C9_Witness ==
  /\ req.method = "PUT"
  /\ res.status = 400
  /\ isInt(req.id)
  /\ \A i \in 1..Len(pre) : ~LooseEq(pre[i].id, req.id)
  /\ Len(pre) >= 1

\* C10: the id of every stored record is a positive integer that is at
\* least the record's 1-based position in users_list.
C10_IdAtLeastPosition ==
  \A i \in 1..Len(users_list) :
    /\ users_list[i].id \in Nat \ {0}
    /\ users_list[i].id >= i

\* deletes have moved a record below the position it was created at, and a
\* later create has taken an id again
C10_Witness ==
  /\ Len(users_list) >= 2
  /\ users_list[1].id > 1
  /\ req.method = "POST"
  /\ res.status = 201

====
